---- MODULE Spec2Model ----
(***************************************************************************)
(* Booking-system backend: the tour formatting routine formatTourData of   *)
(* src/services/bookingService.js, which resolves the CMS-authored         *)
(* acf.departure_schedule field of a WordPress tour record into the        *)
(* availability, seat and pricing fields of the tour handed to the         *)
(* listing and booking routes.                                             *)
(*                                                                         *)
(* JavaScript values are modelled as tagged records [k, v]; a text is a    *)
(* sequence of symbols, where the digit symbols are the decimal digits and *)
(* every other symbol is an opaque piece of non-digit text; a JSON text is *)
(* a text whose symbols are JSON tokens.                                   *)
(***************************************************************************)
EXTENDS Integers, Sequences, FiniteSets, TLC

VARIABLES
  wpTour,    \* the record fetched for one tour (response.data of getTourById)
  pc,        \* where the resolution of that record stands
  tour,      \* what formatTourData settled with for it
  wpTours,   \* the records fetched for a listing (response.data of getAllTours)
  tours,     \* per record of the listing, what formatTourData settled with
  listing,   \* what getAllTours settled with
  env,       \* process.env.ENABLE_TEST_MODE
  body,      \* req.body of the POST /api/bookings request being handled
  hpc,       \* where the handler of that request stands
  fetched,   \* what getTourById settled with for the request
  bookings,  \* the rows of the bookings table
  created,   \* id of the row the handler has inserted, 0 before
  outbox,    \* the confirmation emails attempted, in order
  seatPosts, \* the update-seats requests attempted, in order
  res,       \* the response sent
  reqs,      \* the PUT, DELETE and PATCH requests on bookings being handled
  clock,     \* the time, as new Date() and NOW() read it
  PAYMENT_MODE,       \* process.env.PAYMENT_MODE || 'HDFC'
  hdfcPaymentHandler, \* the HDFC handler, null when it was not initialised
  razorpay,           \* the Razorpay client, null when it is not configured
  verifyBody,         \* req.body of the POST /api/payments/verify request
  verifyPc,           \* where the handler of that request stands
  orderStatusResp,    \* what hdfcPaymentHandler.orderStatus settled with
  isValidSignature,   \* what validateHMAC_SHA256 returned for req.body
  verifyRes           \* the response sent to the verify request

tourVars == <<wpTour, pc, tour>>

listVars == <<wpTours, tours, listing>>

bookingVars == <<env, body, hpc, fetched, bookings, created, outbox, seatPosts, res>>

manageVars == <<reqs, clock>>

verifyVars == <<PAYMENT_MODE, hdfcPaymentHandler, razorpay, verifyBody, verifyPc,
                orderStatusResp, isValidSignature, verifyRes>>

vars == <<tourVars, listVars, bookingVars, manageVars, verifyVars>>

(***************************************************************************)
(* Bounds of the model.                                                    *)
(***************************************************************************)
\* longest departures list an editor has authored
MaxDeps == 3

\* most tours one listing holds
MaxTours == 3

(***************************************************************************)
(* JavaScript values.                                                      *)
(***************************************************************************)
Undefined == [k |-> "undefined", v |-> 0]
Null == [k |-> "null", v |-> 0]
NaN == [k |-> "NaN", v |-> 0]
Num(n) == [k |-> "number", v |-> n]
Bool(b) == [k |-> "boolean", v |-> b]
Str(s) == [k |-> "string", v |-> s]
Arr(s) == [k |-> "array", v |-> s]
Obj(f) == [k |-> "object", v |-> f]

\* one symbol of a text, and the text made of one opaque symbol
Ch(c) == [k |-> "char", v |-> c]
S(c) == Str(<<Ch(c)>>)

\* typeof x
TypeOf(x) ==
  CASE x.k \in {"number", "NaN"} -> "number"
    [] x.k \in {"array", "object", "null"} -> "object"
    [] OTHER -> x.k

\* ToBoolean(x): the test of if (x), x && y, x || y
Truthy(x) ==
  CASE x.k \in {"undefined", "null", "NaN"} -> FALSE
    [] x.k = "number" -> x.v # 0
    [] x.k = "boolean" -> x.v
    [] x.k = "string" -> x.v # <<>>
    [] OTHER -> TRUE

\* x || y
Or(x, y) == IF Truthy(x) THEN x ELSE y

\* x.key of a value x that is neither null nor undefined
Get(x, key) ==
  CASE x.k = "object" -> IF key \in DOMAIN x.v THEN x.v[key] ELSE Undefined
    [] x.k \in {"array", "string"} /\ key = "length" -> Num(Len(x.v))
    [] OTHER -> Undefined

\* x?.key
OptGet(x, key) == IF x.k \in {"undefined", "null"} THEN Undefined ELSE Get(x, key)

\* x?.[0]
OptFirst(x) ==
  CASE x.k = "array" -> IF Len(x.v) > 0 THEN x.v[1] ELSE Undefined
    [] x.k = "string" -> IF Len(x.v) > 0 THEN Str(<<x.v[1]>>) ELSE Undefined
    [] x.k = "object" -> IF "0" \in DOMAIN x.v THEN x.v["0"] ELSE Undefined
    [] OTHER -> Undefined

DigitSyms == <<"0", "1", "2", "3", "4", "5", "6", "7", "8", "9">>

IsDigit(c) == c.k = "char" /\ \E i \in 1..10 : DigitSyms[i] = c.v

DigitVal(c) == (CHOOSE i \in 1..10 : DigitSyms[i] = c.v) - 1

RECURSIVE NumToSyms(_)
\* the decimal digits of a non-negative integer
NumToSyms(n) ==
  IF n < 10 THEN <<Ch(DigitSyms[n + 1])>>
  ELSE NumToSyms(n \div 10) \o <<Ch(DigitSyms[(n % 10) + 1])>>

RECURSIVE ToStringJS(_)
RECURSIVE JoinFrom(_, _, _)
\* the texts of the elements i.. of s joined by sep (Array.prototype.join);
\* null and undefined elements give the empty text
JoinFrom(s, i, sep) ==
  IF i > Len(s) THEN <<>>
  ELSE (IF i > 1 THEN sep ELSE <<>>)
       \o (IF s[i].k \in {"null", "undefined"} THEN <<>> ELSE ToStringJS(s[i]))
       \o JoinFrom(s, i + 1, sep)

\* ToString(x)
ToStringJS(x) ==
  CASE x.k = "string" -> x.v
    [] x.k = "number" -> NumToSyms(x.v)
    [] x.k = "NaN" -> <<Ch("NaN")>>
    [] x.k = "boolean" -> IF x.v THEN <<Ch("true")>> ELSE <<Ch("false")>>
    [] x.k = "null" -> <<Ch("null")>>
    [] x.k = "array" -> JoinFrom(x.v, 1, <<Ch(",")>>)
    [] x.k = "object" -> <<Ch("[object Object]")>>
    [] OTHER -> <<Ch("undefined")>>

\* ToNumber(x) of a primitive value that is not a text
ToNumberJS(x) ==
  CASE x.k = "number" -> x
    [] x.k = "boolean" -> IF x.v THEN Num(1) ELSE Num(0)
    [] x.k = "null" -> Num(0)
    [] OTHER -> NaN

\* x + y on primitive values: concatenation as soon as one side is a text
Plus(x, y) ==
  IF x.k = "string" \/ y.k = "string"
  THEN Str(ToStringJS(x) \o ToStringJS(y))
  ELSE LET a == ToNumberJS(x)
           b == ToNumberJS(y)
       IN  IF a.k = "NaN" \/ b.k = "NaN" THEN NaN ELSE Num(a.v + b.v)

RECURSIVE DigitsValue(_, _, _)
\* value of the longest digit prefix of s starting at i, acc so far
DigitsValue(s, i, acc) ==
  IF i > Len(s) \/ ~IsDigit(s[i]) THEN acc
  ELSE DigitsValue(s, i + 1, acc * 10 + DigitVal(s[i]))

\* parseInt(x): the integer at the head of ToString(x), NaN when there is none
ParseInt(x) ==
  LET s == ToStringJS(x)
  IN  IF s = <<>> \/ ~IsDigit(s[1]) THEN NaN ELSE Num(DigitsValue(s, 1, 0))

(***************************************************************************)
(* JSON text: a text whose symbols are tokens.  A token is a punctuation   *)
(* mark, a scalar (text, number, true, false, null) or a bare word.        *)
(***************************************************************************)
Punct(p) == [k |-> "punct", v |-> p]

IsPunct(t, i, p) == i <= Len(t) /\ t[i] = Punct(p)

RECURSIVE KeyOf(_, _)
\* the property name spelled by the symbols i.. of s
KeyOf(s, i) == IF i > Len(s) THEN "" ELSE s[i].v \o KeyOf(s, i + 1)

Fail == [ok |-> FALSE, val |-> Undefined, next |-> 0]

RECURSIVE ParseValue(_, _)
RECURSIVE ParseArrayRest(_, _, _)
RECURSIVE ParseObjectRest(_, _, _)
\* the elements of an array from token i on, acc being those already read
ParseArrayRest(t, i, acc) ==
  LET r == ParseValue(t, i)
  IN  IF ~r.ok THEN Fail
      ELSE IF IsPunct(t, r.next, ",")
           THEN ParseArrayRest(t, r.next + 1, Append(acc, r.val))
      ELSE IF IsPunct(t, r.next, "]")
           THEN [ok |-> TRUE, val |-> Arr(Append(acc, r.val)), next |-> r.next + 1]
      ELSE Fail

\* the members of an object from token i on, acc being those already read;
\* a repeated name keeps the last value
ParseObjectRest(t, i, acc) ==
  IF ~(i <= Len(t) /\ t[i].k = "string" /\ IsPunct(t, i + 1, ":")) THEN Fail
  ELSE LET r == ParseValue(t, i + 2)
           f == (KeyOf(t[i].v, 1) :> r.val) @@ acc
       IN  IF ~r.ok THEN Fail
           ELSE IF IsPunct(t, r.next, ",") THEN ParseObjectRest(t, r.next + 1, f)
           ELSE IF IsPunct(t, r.next, "}")
                THEN [ok |-> TRUE, val |-> Obj(f), next |-> r.next + 1]
           ELSE Fail

\* the JSON value that starts at token i
ParseValue(t, i) ==
  IF i > Len(t) THEN Fail
  ELSE IF t[i].k \in {"string", "number", "boolean", "null"}
       THEN [ok |-> TRUE, val |-> t[i], next |-> i + 1]
  ELSE IF IsPunct(t, i, "[")
       THEN IF IsPunct(t, i + 1, "]")
            THEN [ok |-> TRUE, val |-> Arr(<<>>), next |-> i + 2]
            ELSE ParseArrayRest(t, i + 1, <<>>)
  ELSE IF IsPunct(t, i, "{")
       THEN IF IsPunct(t, i + 1, "}")
            THEN [ok |-> TRUE, val |-> Obj(<<>>), next |-> i + 2]
            ELSE ParseObjectRest(t, i + 1, <<>>)
  ELSE Fail

\* JSON.parse(text): ok is FALSE where JSON.parse throws a SyntaxError
JSONParse(text) ==
  LET r == ParseValue(text.v, 1)
  IN  IF r.ok /\ r.next = Len(text.v) + 1 THEN r ELSE Fail

\* the order in which an editor writes the members of an object
KeyOrder ==
  <<"departures", "metadata", "0", "date", "status", "availableSeats", "totalSeats",
    "pricePerPerson", "pricingTiers", "childWithBed", "childWithoutBed",
    "extraAdultSameRoom", "singleRoomSupplement", "addons", "location", "duration",
    "minTravelers", "maxTravelers", "minPax", "maxPax", "price", "id", "name">>

RECURSIVE Stringify(_)
RECURSIVE StringifyElements(_, _)
RECURSIVE StringifyMembers(_, _, _)
\* the tokens of the elements i.. of the array s
StringifyElements(s, i) ==
  IF i > Len(s) THEN <<>>
  ELSE (IF i > 1 THEN <<Punct(",")>> ELSE <<>>) \o Stringify(s[i]) \o StringifyElements(s, i + 1)

\* the tokens of the members of f named KeyOrder[i..]; first is TRUE until one is written
StringifyMembers(f, i, first) ==
  IF i > Len(KeyOrder) THEN <<>>
  ELSE IF KeyOrder[i] \notin DOMAIN f THEN StringifyMembers(f, i + 1, first)
  ELSE (IF first THEN <<>> ELSE <<Punct(",")>>)
       \o <<S(KeyOrder[i]), Punct(":")>> \o Stringify(f[KeyOrder[i]])
       \o StringifyMembers(f, i + 1, FALSE)

\* the tokens of the JSON text an editor saves for the value x
Stringify(x) ==
  CASE x.k = "array" -> <<Punct("[")>> \o StringifyElements(x.v, 1) \o <<Punct("]")>>
    [] x.k = "object" -> <<Punct("{")>> \o StringifyMembers(x.v, 1, TRUE) \o <<Punct("}")>>
    [] OTHER -> <<x>>

\* the JSON text of x, as a text value
JSONText(x) == Str(Stringify(x))

(***************************************************************************)
(* formatTourData.                                                         *)
(***************************************************************************)
\* only a text is decoded: a value that is already a structure is dropped
DecodeScheduleTextOnly(departureScheduleRaw) ==
  IF ~Truthy(departureScheduleRaw) THEN Null
  ELSE IF TypeOf(departureScheduleRaw) = "string"
       THEN LET r == JSONParse(departureScheduleRaw)
            IN  IF r.ok THEN r.val ELSE Null
  ELSE Null

\* departureSchedule after the decoding of acf.departure_schedule
DecodeSchedule(departureScheduleRaw) ==
  IF ~Truthy(departureScheduleRaw) THEN Null
  ELSE IF TypeOf(departureScheduleRaw) = "string"
       THEN LET r == JSONParse(departureScheduleRaw)
            IN  IF r.ok THEN r.val ELSE Null
  ELSE IF TypeOf(departureScheduleRaw) = "object" THEN departureScheduleRaw
  ELSE Null

\* departureSchedule && departureSchedule.departures && Array.isArray(...)
HasDepartureList(departureSchedule) ==
  /\ Truthy(departureSchedule)
  /\ Truthy(Get(departureSchedule, "departures"))
  /\ Get(departureSchedule, "departures").k = "array"

\* variant: only the status 'open' counts as available
OnlyOpen(d) == Get(d, "status") = S("open")

\* d => d.status !== 'sold_out'
NotSoldOut(d) == Get(d, "status") # S("sold_out")

\* reading d.status of a null element raises a TypeError
StatusThrows(departures) ==
  \E i \in 1..Len(departures) : departures[i].k \in {"null", "undefined"}

\* variant: no departure is filtered out
KeepAll(departures) == departures

\* departures.filter(d => d.status !== 'sold_out')
FilterNotSoldOut(departures) == SelectSeq(departures, NotSoldOut)

\* .map(d => d.date)
MapDate(ds) == [i \in 1..Len(ds) |-> Get(ds[i], "date")]

RECURSIVE ReduceSeats(_, _, _)
\* .reduce((sum, d) => sum + (d.availableSeats || 0), 0) from element i on
ReduceSeats(ds, i, sum) ==
  IF i > Len(ds) THEN sum
  ELSE ReduceSeats(ds, i + 1, Plus(sum, Or(Get(ds[i], "availableSeats"), Num(0))))

\* variant: the first listed departure, sold out or not
FindFirstListed(departures) == IF Len(departures) > 0 THEN departures[1] ELSE Undefined

\* departures.find(d => d.status !== 'sold_out')
FindNotSoldOut(departures) ==
  IF \E i \in 1..Len(departures) : NotSoldOut(departures[i])
  THEN departures[CHOOSE i \in 1..Len(departures) :
                    /\ NotSoldOut(departures[i])
                    /\ \A j \in 1..(i - 1) : ~NotSoldOut(departures[j])]
  ELSE Undefined

\* x > 0 for the value of a length property
GreaterThanZero(x) == x.k = "number" /\ x.v > 0

\* variant: the tiers of the first available departure are taken unchecked
TiersUnchecked(firstDeparture) ==
  IF Truthy(firstDeparture) THEN Get(firstDeparture, "pricingTiers") ELSE Arr(<<>>)

\* pricingTiersFromSchedule
TiersOf(firstDeparture) ==
  IF /\ Truthy(firstDeparture)
     /\ Truthy(Get(firstDeparture, "pricingTiers"))
     /\ GreaterThanZero(Get(Get(firstDeparture, "pricingTiers"), "length"))
  THEN Get(firstDeparture, "pricingTiers")
  ELSE Arr(<<>>)

\* variant: the price starts from the ACF price field of the tour
InitialPriceFromAcf(acf) == Or(Get(acf, "price"), Num(0))

\* let pricePerPerson = 0: no price is read from the ACF fields of the tour
InitialPrice(acf) == Num(0)

\* pricePerPerson
PriceOf(acf, firstDeparture) ==
  IF Truthy(firstDeparture) THEN Or(Get(firstDeparture, "pricePerPerson"), Num(0))
  ELSE InitialPrice(acf)

\* departureSchedule?.departures?.[0]?.field || 0
SupplementOf(departureSchedule, field) ==
  Or(OptGet(OptFirst(OptGet(departureSchedule, "departures")), field), Num(0))

\* departureSchedule?.metadata?.field
MetadataOf(departureSchedule, field) ==
  OptGet(OptGet(departureSchedule, "metadata"), field)

RECURSIVE Flat(_, _)
\* terms.flat() from element i on: one level of nesting removed
Flat(s, i) ==
  IF i > Len(s) THEN <<>>
  ELSE (IF s[i].k = "array" THEN s[i].v ELSE <<s[i]>>) \o Flat(s, i + 1)

IsDestination(term) == Get(term, "taxonomy") = S("destinations")

\* destinations: the names of the embedded terms of taxonomy 'destinations'
DestinationsOf(tourRecord) ==
  LET embedded == Get(tourRecord, "_embedded")
  IN  IF Truthy(embedded) /\ Truthy(Get(embedded, "wp:term"))
      THEN LET terms == SelectSeq(Flat(Get(embedded, "wp:term").v, 1), IsDestination)
           IN  [i \in 1..Len(terms) |-> Get(terms[i], "name")]
      ELSE <<>>

\* a fallback date for a schedule that lists no bookable departure
ResetDatesFallback(departureSchedule, availableDates) ==
  IF ~Truthy(departureSchedule) THEN <<>>
  ELSE IF Len(availableDates) = 0 THEN <<S("TBA")>>
  ELSE availableDates

\* if (!departureSchedule || availableDates.length === 0) availableDates = []
ResetDates(departureSchedule, availableDates) ==
  IF ~Truthy(departureSchedule) \/ Len(availableDates) = 0 THEN <<>>
  ELSE availableDates

\* if (!departureSchedule || availableDates.length === 0) seatsAvailable = 0
ResetSeats(departureSchedule, availableDates, seatsAvailable) ==
  IF ~Truthy(departureSchedule) \/ Len(availableDates) = 0 THEN Num(0)
  ELSE seatsAvailable

\* the destinations named before the schedule's own location
LocationDestinationsFirst(departureSchedule, destinations, acf) ==
  Or(Str(JoinFrom(destinations, 1, <<Ch(", ")>>)),
  Or(MetadataOf(departureSchedule, "location"),
  Or(Get(acf, "location"), S("India"))))

\* departureSchedule?.metadata?.location || destinations.join(', ') ||
\* acf.location || 'India'
LocationOf(departureSchedule, destinations, acf) ==
  Or(MetadataOf(departureSchedule, "location"),
  Or(Str(JoinFrom(destinations, 1, <<Ch(", ")>>)),
  Or(Get(acf, "location"), S("India"))))

\* departureSchedule?.metadata?.duration || acf.duration ||
\* wpTour.title?.rendered || '7 Days / 6 Nights'
DurationOf(departureSchedule, acf, title) ==
  Or(MetadataOf(departureSchedule, "duration"),
  Or(Get(acf, "duration"),
  Or(title, S("7 Days / 6 Nights"))))

\* the value formatTourData(wpTour) settles with: the formatted tour, or the
\* TypeError raised while the departures are filtered
formatTourData(tourRecord) ==
  LET acf == Or(Get(tourRecord, "acf"), Obj(<<>>))
      departureSchedule == DecodeSchedule(Get(acf, "departure_schedule"))
      hasList == HasDepartureList(departureSchedule)
      departures == IF hasList THEN Get(departureSchedule, "departures").v ELSE <<>>
      filtered == FilterNotSoldOut(departures)
      firstDeparture == FindNotSoldOut(departures)
      availableDates == ResetDates(departureSchedule, MapDate(filtered))
      seatsAvailable == ResetSeats(departureSchedule, MapDate(filtered),
                                   ReduceSeats(filtered, 1, Num(0)))
      pricePerPerson == PriceOf(acf, firstDeparture)
      destinations == DestinationsOf(tourRecord)
      title == OptGet(Get(tourRecord, "title"), "rendered")
  IN  IF hasList /\ StatusThrows(departures)
      THEN [state |-> "rejected", value |-> [error |-> "TypeError"]]
      ELSE [state |-> "fulfilled",
            value |->
              [id |-> Str(ToStringJS(Get(tourRecord, "id"))),
               slug |-> Get(tourRecord, "slug"),
               name |-> Or(title, S("Untitled Tour")),
               location |-> LocationOf(departureSchedule, destinations, acf),
               destinations |-> Arr(destinations),
               duration |-> DurationOf(departureSchedule, acf, title),
               pricePerPerson |-> pricePerPerson,
               priceAdult |-> pricePerPerson,
               priceChild |-> Num(0),
               childWithBed |-> SupplementOf(departureSchedule, "childWithBed"),
               childWithoutBed |-> SupplementOf(departureSchedule, "childWithoutBed"),
               extraAdultSameRoom |-> SupplementOf(departureSchedule, "extraAdultSameRoom"),
               singleRoomSupplement |->
                 SupplementOf(departureSchedule, "singleRoomSupplement"),
               pricingTiers |-> TiersOf(firstDeparture),
               availableDates |-> Arr(availableDates),
               departureDate |-> Or(IF Len(availableDates) > 0 THEN availableDates[1]
                                    ELSE Undefined, Str(<<>>)),
               departureSchedule |-> departureSchedule,
               minTravelers |-> ParseInt(Or(MetadataOf(departureSchedule, "minTravelers"),
                                            Num(1))),
               maxTravelers |-> ParseInt(Or(MetadataOf(departureSchedule, "maxTravelers"),
                                            Num(30))),
               seatsAvailable |-> seatsAvailable,
               bookingDeadline |-> Num(7),
               addons |-> Or(OptGet(OptFirst(OptGet(departureSchedule, "departures")),
                                    "addons"), Arr(<<>>)),
               customFields |-> acf]]

(***************************************************************************)
(* The tour records the content store can serve.                           *)
(***************************************************************************)
Tier1 == Obj([minPax |-> Num(2), price |-> Num(180)])
Tier2 == Obj([minPax |-> Num(4), price |-> Num(150)])

DepSoldOut ==
  Obj([date |-> S("2025-05-01"), status |-> S("sold_out"), availableSeats |-> Num(10),
       pricePerPerson |-> Num(100), pricingTiers |-> Arr(<<Tier1>>),
       childWithBed |-> Num(40), childWithoutBed |-> Num(30),
       extraAdultSameRoom |-> Num(20), singleRoomSupplement |-> Num(10)])

\* an open departure on the date of the sold-out one
DepOpenA ==
  Obj([date |-> S("2025-05-01"), status |-> S("open"), availableSeats |-> Num(3),
       pricePerPerson |-> Num(200), pricingTiers |-> Arr(<<Tier2>>),
       childWithBed |-> Num(41), childWithoutBed |-> Num(31),
       extraAdultSameRoom |-> Num(21), singleRoomSupplement |-> Num(11)])

DepOpenB ==
  Obj([date |-> S("2025-06-01"), status |-> S("open"), availableSeats |-> Num(5),
       pricePerPerson |-> Num(300), pricingTiers |-> Arr(<<>>)])

\* a status other than open and sold_out, no seat count
DepLimited ==
  Obj([date |-> S("2025-07-01"), status |-> S("limited"),
       pricePerPerson |-> Num(250), pricingTiers |-> Arr(<<Tier1, Tier2>>)])

\* no date, no status, no price, no tiers, the seat count typed as text
DepBare == Obj([availableSeats |-> S("5")])

\* the elements an editor has put in a departures list: records, null, a number
DepartureChoices == {DepSoldOut, DepOpenA, DepOpenB, DepLimited, DepBare, Null, Num(0)}

DepartureLists == UNION {[1..n -> DepartureChoices] : n \in 0..MaxDeps}

MetaFull ==
  Obj([location |-> S("Goa"), duration |-> S("5 Days"),
       minTravelers |-> Num(2), maxTravelers |-> Num(12)])

MetaText == Obj([minTravelers |-> S("4"), maxTravelers |-> S("abc")])

MetaMixed ==
  Obj([minTravelers |-> Num(0), maxTravelers |-> Str(<<Ch("1"), Ch("2"), Ch(" pax")>>)])

MetadataChoices == {MetaFull, MetaText, MetaMixed}

\* an object with the given departures member, with and without metadata
WithMetadata(departures) ==
  {Obj([departures |-> departures])}
    \cup {Obj([departures |-> departures, metadata |-> m]) : m \in MetadataChoices}

\* schedules with a departures list
ListSchedules == UNION {WithMetadata(Arr(l)) : l \in DepartureLists}

\* schedules whose departures member is missing or is not a list
NoListSchedules ==
  {Obj(<<>>)} \cup {Obj([metadata |-> m]) : m \in MetadataChoices}
    \cup UNION {WithMetadata(d) : d \in {Null, S("TBD"), Num(0), Obj("0" :> DepOpenA)}}

\* JSON values that are not objects
OtherValues ==
  {Null, Num(0), Num(5), Bool(FALSE), Bool(TRUE), S("soon"), Arr(<<DepOpenA>>)}

ScheduleValues == ListSchedules \cup NoListSchedules \cup OtherValues

\* texts JSON.parse rejects: a bare word, a text cut short, a text with a tail
MalformedTexts ==
  {Str(<<Punct("{"), Ch("not valid json")>>)}
    \cup {Str(SubSeq(Stringify(x), 1, Len(Stringify(x)) - 1)) :
            x \in WithMetadata(Arr(<<DepOpenA>>))}
    \cup {Str(Stringify(x) \o <<Punct("}")>>) : x \in WithMetadata(Arr(<<DepOpenA>>))}

\* the values of acf.departure_schedule: absent, empty text, a decoded value,
\* its JSON text, a malformed text
RawSchedules ==
  {Undefined, Str(<<>>)} \cup ScheduleValues \cup {JSONText(x) : x \in ScheduleValues}
    \cup MalformedTexts

\* the other fields of the record
BaseAcf == [location |-> S("Kerala"), duration |-> S("4 Days"), price |-> Num(999)]

TourRecord(departureScheduleRaw) ==
  Obj([id |-> Num(101),
       slug |-> S("goa-getaway"),
       title |-> Obj([rendered |-> S("Goa Getaway")]),
       acf |-> Obj(IF departureScheduleRaw = Undefined THEN BaseAcf
                   ELSE ("departure_schedule" :> departureScheduleRaw) @@ BaseAcf),
       _embedded |->
         Obj("wp:term" :>
           Arr(<<Arr(<<Obj([taxonomy |-> S("destinations"), name |-> S("Goa")]),
                       Obj([taxonomy |-> S("category"), name |-> S("Beach")])>>)>>))])

\* a record without ACF fields
BareRecord == Obj([id |-> Num(102), slug |-> S("untitled")])

TourRecords == {TourRecord(raw) : raw \in RawSchedules} \cup {BareRecord}

(***************************************************************************)
(* Tour records that differ in the sources of location and duration: the   *)
(* schedule's metadata, the destination terms, the ACF fields, the title.  *)
(***************************************************************************)
\* the member f with the value x, no member when x is undefined
Member(f, x) == IF x = Undefined THEN <<>> ELSE f :> x

\* metadata.location and metadata.duration: missing, empty, or a text
MetaLocations == {Undefined, Str(<<>>), S("North Goa")}

MetaDurations == {Undefined, Str(<<>>), S("5 Days")}

\* schedules with every combination of the two metadata members, a
\* schedule without metadata, and one whose metadata is null
MetadataSchedules ==
  {Obj([departures |-> Arr(<<DepOpenB>>),
        metadata |-> Obj(Member("location", l) @@ Member("duration", d))]) :
     l \in MetaLocations, d \in MetaDurations}
    \cup {Obj([departures |-> Arr(<<DepOpenB>>)]),
          Obj([departures |-> Arr(<<DepOpenB>>), metadata |-> Null])}

\* the field as served: absent, decoded, or as JSON text
PrecedenceSchedules ==
  {Undefined} \cup MetadataSchedules \cup {JSONText(x) : x \in MetadataSchedules}

AcfLocations == {Undefined, Str(<<>>), S("Kerala")}

AcfDurations == {Undefined, Str(<<>>), S("4 Days")}

\* wpTour.title: missing, with an empty rendered text, with a text
Titles == {Undefined, Obj([rendered |-> Str(<<>>)]), Obj([rendered |-> S("Goa Getaway")])}

\* wpTour._embedded: missing, terms of another taxonomy only, one
\* destination, two destinations in two term groups
Embeddings ==
  {Undefined,
   Obj("wp:term" :> Arr(<<Arr(<<Obj([taxonomy |-> S("category"), name |-> S("Beach")])>>)>>)),
   Obj("wp:term" :>
     Arr(<<Arr(<<Obj([taxonomy |-> S("destinations"), name |-> S("Goa")]),
                 Obj([taxonomy |-> S("category"), name |-> S("Beach")])>>)>>)),
   Obj("wp:term" :>
     Arr(<<Arr(<<Obj([taxonomy |-> S("destinations"), name |-> S("Goa")])>>),
           Arr(<<Obj([taxonomy |-> S("category"), name |-> S("Beach")]),
                 Obj([taxonomy |-> S("destinations"), name |-> S("Hampi")])>>)>>))}

PrecedenceRecord(departureScheduleRaw, location, duration, title, embedded) ==
  Obj([id |-> Num(103), slug |-> S("goa-and-hampi")]
      @@ Member("title", title)
      @@ Member("_embedded", embedded)
      @@ ("acf" :> Obj(Member("departure_schedule", departureScheduleRaw)
                        @@ Member("location", location)
                        @@ Member("duration", duration))))

PrecedenceRecords ==
  {PrecedenceRecord(raw, l, d, t, e) :
     raw \in PrecedenceSchedules, l \in AcfLocations, d \in AcfDurations,
     t \in Titles, e \in Embeddings}

(***************************************************************************)
(* The state machine: a tour record has been fetched from the content      *)
(* store (getTourById, getAllTours) and formatTourData is applied to it.   *)
(***************************************************************************)
NoTour == [state |-> "pending", value |-> [error |-> "none"]]

\* no listing has been asked for
NoListing ==
  /\ wpTours = <<>>
  /\ tours = <<>>
  /\ listing = NoTour

NoResponse == [status |-> 0, success |-> FALSE, error |-> "none"]

\* no payment is being verified
NoVerification ==
  /\ PAYMENT_MODE = S("HDFC")
  /\ hdfcPaymentHandler = Null
  /\ razorpay = Null
  /\ verifyBody = Obj(<<>>)
  /\ verifyPc = "idle"
  /\ orderStatusResp = Undefined
  /\ isValidSignature = Undefined
  /\ verifyRes = NoResponse

\* no booking request has been received
NoRequest ==
  /\ NoVerification
  /\ env = Undefined
  /\ body = Obj(<<>>)
  /\ hpc = "idle"
  /\ fetched = NoTour
  /\ bookings = <<>>
  /\ created = 0
  /\ outbox = <<>>
  /\ seatPosts = <<>>
  /\ res = NoResponse
  /\ reqs = <<>>
  /\ clock = 0

Init ==
  /\ wpTour \in TourRecords
  /\ pc = "fetched"
  /\ tour = NoTour
  /\ NoListing
  /\ NoRequest

\* return await formatTourData(tourData)
FormatTourData ==
  /\ pc = "fetched"
  /\ tour' = formatTourData(wpTour)
  /\ pc' = "settled"
  /\ UNCHANGED <<wpTour, listVars, bookingVars, manageVars, verifyVars>>

Next == FormatTourData

Spec == Init /\ [][Next]_vars

\* the fetched record is one of the records that differ in the sources
\* of location and duration
InitPrecedence ==
  /\ wpTour \in PrecedenceRecords
  /\ pc = "fetched"
  /\ tour = NoTour
  /\ NoListing
  /\ NoRequest

SpecPrecedence == InitPrecedence /\ [][Next]_vars

(***************************************************************************)
(* A listing (getAllTours, searchTours, getToursByDestination): the        *)
(* records of the response are each handed to formatTourData and the       *)
(* promises are collected with Promise.all.  The invocations of one        *)
(* listing start in list order and those of other requests run in          *)
(* between; here the invocations settle in any order.                      *)
(***************************************************************************)
\* the records a listing can hold
ListedRecords ==
  {BareRecord,
   TourRecord(Undefined),
   TourRecord(Obj([departures |-> Arr(<<DepSoldOut, DepOpenA>>)])),
   TourRecord(JSONText(Obj([departures |-> Arr(<<DepOpenB>>), metadata |-> MetaFull]))),
   TourRecord(Obj([departures |-> Arr(<<DepOpenB, DepLimited>>)])),
   TourRecord(Obj([departures |-> Arr(<<Null>>)]))}

\* seats counted by earlier invocations carried into this one
SettleCarryingSeats(settled, i, tourRecord) ==
  LET own == formatTourData(tourRecord)
      carried == {j \in 1..Len(settled) : j # i /\ settled[j].state = "fulfilled"}
  IN  IF own.state = "fulfilled" /\ carried # {}
      THEN [own EXCEPT !.value.seatsAvailable =
              Plus(@, settled[CHOOSE j \in carried : TRUE].value.seatsAvailable)]
      ELSE own

\* the promise formatTourData(tour) of position i settles: the call works
\* on its argument and its own locals only
SettleOne(settled, i, tourRecord) == formatTourData(tourRecord)

InitList ==
  /\ wpTours \in UNION {[1..n -> ListedRecords] : n \in 0..MaxTours}
  /\ tours = [i \in 1..Len(wpTours) |-> NoTour]
  /\ listing = NoTour
  /\ wpTour = BareRecord
  /\ pc = "idle"
  /\ tour = NoTour
  /\ NoRequest

\* response.data.map(tour => formatTourData(tour)), one invocation
FormatListed(i) ==
  /\ listing = NoTour
  /\ tours[i] = NoTour
  /\ tours' = [tours EXCEPT ![i] = SettleOne(tours, i, wpTours[i])]
  /\ UNCHANGED <<wpTours, listing, tourVars, bookingVars, manageVars, verifyVars>>

\* await Promise.all(...): the list of the results, or the failure of the
\* listing when an invocation has thrown
CollectAll ==
  /\ listing = NoTour
  /\ \A i \in 1..Len(tours) : tours[i] # NoTour
  /\ listing' =
       IF \E i \in 1..Len(tours) : tours[i].state = "rejected"
       THEN [state |-> "rejected", value |-> [error |-> "Failed to fetch tours from WordPress"]]
       ELSE [state |-> "fulfilled",
             value |-> [i \in 1..Len(tours) |-> tours[i].value]]
  /\ UNCHANGED <<wpTours, tours, tourVars, bookingVars, manageVars, verifyVars>>

NextList ==
  \/ \E i \in 1..Len(wpTours) : FormatListed(i)
  \/ CollectAll

SpecList == InitList /\ [][NextList]_vars

(***************************************************************************)
(* The content store as the booking route sees it (getTourById).           *)
(***************************************************************************)
\* the text of the number n
Digits(n) == Str(NumToSyms(n))

\* !isNaN(idOrSlug): a number, or a text of digits
IsNumeric(x) ==
  \/ x.k = "number"
  \/ x.k = "string" /\ \A i \in 1..Len(x.v) : IsDigit(x.v[i])

\* the tour the content store holds: sold out on 2025-05-01, five seats
\* on 2025-06-01
StoredTour ==
  TourRecord(JSONText(Obj([departures |-> Arr(<<DepSoldOut, DepOpenB>>)])))

StoredTours == {StoredTour}

\* axios.get(endpoint): the record of that id, or the list of the records
\* of that slug; the request fails when the store is out of reach or
\* knows no record of that id
WordPressGet(idOrSlug, online) ==
  IF ~online THEN [ok |-> FALSE, data |-> Undefined]
  ELSE IF IsNumeric(idOrSlug)
       THEN LET hits == {t \in StoredTours :
                           ToStringJS(Get(t, "id")) = ToStringJS(idOrSlug)}
            IN  IF hits = {} THEN [ok |-> FALSE, data |-> Undefined]
                ELSE [ok |-> TRUE, data |-> CHOOSE t \in hits : TRUE]
  ELSE LET hits == {t \in StoredTours : Get(t, "slug") = idOrSlug}
       IN  [ok |-> TRUE,
            data |-> Arr(IF hits = {} THEN <<>> ELSE <<CHOOSE t \in hits : TRUE>>)]

\* catch (error) { throw new Error('Failed to fetch tour details') }
FetchFailed == [state |-> "rejected", value |-> [error |-> "Failed to fetch tour details"]]

\* return await formatTourData(tourData) inside the try: a rejection is
\* caught and rethrown like every other failure
Rethrown(formatted) == IF formatted.state = "rejected" THEN FetchFailed ELSE formatted

\* Array.isArray(response.data) ? response.data[0] : response.data
TourDataOf(data) == IF data.k = "array" THEN OptFirst(data) ELSE data

\* what getTourById(idOrSlug) settles with
getTourById(idOrSlug, online) ==
  LET response == WordPressGet(idOrSlug, online)
  IN  IF ~response.ok THEN FetchFailed
      ELSE IF ~Truthy(TourDataOf(response.data)) THEN FetchFailed
      ELSE Rethrown(formatTourData(TourDataOf(response.data)))

(***************************************************************************)
(* The requests POST /api/bookings receives.  The body members that only   *)
(* travel into the stored row (customer, prices, rooms) are left out;      *)
(* they pass the validators.                                               *)
(***************************************************************************)
\* the dates of the calendar, the texts isISO8601 accepts
CalendarDates == {S("2025-05-01"), S("2025-06-01")}

TourIds == {Digits(101), Digits(999), S("goa-getaway"), S("nowhere")}

DepartureDates == CalendarDates \cup {S("next week")}

AdultCounts == {Num(0), Num(2), Num(6)}

ChildCounts == {Undefined, Num(4)}

\* no status, the statuses the table takes, and one it does not
PaymentStatuses == {Undefined, S("pending"), S("confirmed"), S("failed"), S("paid")}

\* no id, a gateway id, a test id, an id sent as a number
PaymentIds ==
  {Undefined, Str(<<Ch("pay_"), Ch("Nq81")>>), Str(<<Ch("test_"), Ch("Nq81")>>), Num(12345)}

PaymentDetails ==
  {Undefined, Obj(<<>>), Obj([testMode |-> Bool(TRUE)]), Obj([method |-> S("card")])}

Bodies ==
  {Obj([tourId |-> t, departureDate |-> d, adults |-> a]
       @@ Member("childrenWithBed", c)
       @@ Member("paymentStatus", ps)
       @@ Member("paymentId", pid)
       @@ Member("paymentDetails", pd)) :
     t \in TourIds, d \in DepartureDates, a \in AdultCounts, c \in ChildCounts,
     ps \in PaymentStatuses, pid \in PaymentIds, pd \in PaymentDetails}

\* body('departureDate').isISO8601()
IsISO8601(x) == x \in CalendarDates

\* body('adults').isInt({ min: 1 })
IsIntMin1(x) == x.k = "number" /\ x.v >= 1

\* validationResult(req).isEmpty()
Valid(b) ==
  /\ Truthy(Get(b, "tourId"))
  /\ IsISO8601(Get(b, "departureDate"))
  /\ IsIntMin1(Get(b, "adults"))

\* new Date(departureDate).toISOString()
ToISOString(date) == Str(date.v \o <<Ch("T00:00:00.000Z")>>)

\* iso.split('T')[0]
SplitT(iso) == Str(<<iso.v[1]>>)

\* Object.keys(x).length
KeysOf(x) ==
  CASE x.k = "object" -> Cardinality(DOMAIN x.v)
    [] x.k \in {"array", "string"} -> Len(x.v)
    [] OTHER -> 0

\* paymentId.startsWith('test_')
StartsWithTest(x) == x.v # <<>> /\ x.v[1] = Ch("test_")

\* paymentDetails?.testMode === true && ENABLE_TEST_MODE === 'true'
IsTestMode(b, e) ==
  OptGet(Get(b, "paymentDetails"), "testMode") = Bool(TRUE) /\ e = S("true")

\* any payment id is taken, a test id too
PaymentCheckAnyId(b, e) ==
  LET paymentId == Get(b, "paymentId")
      details == Get(b, "paymentDetails")
  IN  IF Get(b, "paymentStatus") = S("confirmed") /\ ~IsTestMode(b, e)
      THEN IF ~Truthy(paymentId) THEN "invalid id"
           ELSE IF ~Truthy(details) \/ KeysOf(details) = 0 THEN "missing details"
           ELSE "passed"
      ELSE "passed"

\* the payment validation before the booking is created
PaymentCheck(b, e) ==
  LET paymentId == Get(b, "paymentId")
      details == Get(b, "paymentDetails")
  IN  IF Get(b, "paymentStatus") = S("confirmed") /\ ~IsTestMode(b, e)
      THEN IF ~Truthy(paymentId) THEN "invalid id"
           ELSE IF TypeOf(paymentId) # "string" THEN "TypeError"
           ELSE IF StartsWithTest(paymentId) THEN "invalid id"
           ELSE IF ~Truthy(details) \/ KeysOf(details) = 0 THEN "missing details"
           ELSE "passed"
      ELSE "passed"

(***************************************************************************)
(* The handler of POST /api/bookings, one action per stretch of code       *)
(* between two awaits.  The content store, the bookings table, the mail    *)
(* transport and the seat webhook answer or fail as they please.           *)
(***************************************************************************)
Response(status, success, error) ==
  [status |-> status, success |-> success, error |-> error]

\* res.status(201).json({ success: true, booking })
Created201 == Response(201, TRUE, "none")

\* catch (error) { res.status(500).json({ success: false, error: error.message }) }
Error500(message) == Response(500, FALSE, message)

\* a row stored before the request arrived
EarlierRow ==
  [id |-> 1, tourId |-> Digits(101), departureDate |-> ToISOString(S("2025-06-01")),
   adults |-> Num(1), childrenWithBed |-> Num(0), childrenWithoutBed |-> Num(0),
   paymentId |-> Undefined, paymentStatus |-> S("pending"),
   bookingStatus |-> S("pending"), confirmationEmailSent |-> FALSE]

\* the row is stored without a booking status and takes the column default
NewRowDefaultStatus(b, formatted, id) ==
  [id |-> id,
   tourId |-> formatted.id,
   departureDate |-> ToISOString(Get(b, "departureDate")),
   adults |-> Or(Get(b, "adults"), Num(1)),
   childrenWithBed |-> Or(Get(b, "childrenWithBed"), Num(0)),
   childrenWithoutBed |-> Or(Get(b, "childrenWithoutBed"), Num(0)),
   paymentId |-> Get(b, "paymentId"),
   paymentStatus |-> Or(Get(b, "paymentStatus"), S("pending")),
   bookingStatus |-> S("pending"),
   confirmationEmailSent |-> FALSE]

\* the row the table returns for bookingData; confirmation_email_sent
\* takes its default FALSE
NewRow(b, formatted, id) ==
  [id |-> id,
   tourId |-> formatted.id,
   departureDate |-> ToISOString(Get(b, "departureDate")),
   adults |-> Or(Get(b, "adults"), Num(1)),
   childrenWithBed |-> Or(Get(b, "childrenWithBed"), Num(0)),
   childrenWithoutBed |-> Or(Get(b, "childrenWithoutBed"), Num(0)),
   paymentId |-> Get(b, "paymentId"),
   paymentStatus |-> Or(Get(b, "paymentStatus"), S("pending")),
   bookingStatus |-> IF Get(b, "paymentStatus") = S("confirmed") THEN S("confirmed")
                     ELSE S("pending"),
   confirmationEmailSent |-> FALSE]

\* CHECK (payment_status IN (...)) and CHECK (booking_status IN (...))
ChecksPass(row) ==
  /\ row.paymentStatus \in {S("pending"), S("confirmed"), S("failed"), S("refunded")}
  /\ row.bookingStatus \in {S("pending"), S("confirmed"), S("cancelled"), S("completed")}

\* BookingService.update(id, updateData): the rows after the update
UpdateRows(rows, id, updateData) ==
  [i \in 1..Len(rows) |-> IF rows[i].id = id THEN updateData @@ rows[i] ELSE rows[i]]

\* (adults || 1) + (childrenWithBed || 0) + (childrenWithoutBed || 0)
TotalGuests(b) ==
  Plus(Plus(Or(Get(b, "adults"), Num(1)), Or(Get(b, "childrenWithBed"), Num(0))),
       Or(Get(b, "childrenWithoutBed"), Num(0)))

\* a failed send is taken for a sent one
EmailErrorMarksSent == "awaitMark"

\* catch (emailError) { console.error(...) }: on to the seat update
AfterEmailError == "awaitSeats"

\* the failure of the seat update fails the request
SeatsErrorRethrown == Error500("seat update failed")

\* catch (webhookError) { console.error(...) }: on to the response
AfterSeatsError == Created201

InitBooking ==
  /\ env \in {Undefined, S("true")}
  /\ body \in Bodies
  /\ hpc = "received"
  /\ fetched = NoTour
  /\ bookings = <<EarlierRow>>
  /\ created = 0
  /\ outbox = <<>>
  /\ seatPosts = <<>>
  /\ res = NoResponse
  /\ reqs = <<>>
  /\ clock = 0
  /\ wpTour = BareRecord
  /\ pc = "idle"
  /\ tour = NoTour
  /\ NoListing
  /\ NoVerification

\* validationResult(req); getTourById(tourId) is called
Validate ==
  /\ hpc = "received"
  /\ IF Valid(body)
     THEN hpc' = "awaitTour" /\ UNCHANGED res
     ELSE hpc' = "done" /\ res' = Response(400, FALSE, "validation errors")
  /\ UNCHANGED <<env, body, fetched, bookings, created, outbox, seatPosts,
                 tourVars, listVars, manageVars, verifyVars>>

\* getTourById has settled: the 404 test, the payment validation, and
\* BookingService.create(bookingData) is called
TourSettles(online) ==
  /\ hpc = "awaitTour"
  /\ \E settled \in {getTourById(Get(body, "tourId"), online)},
        check \in {PaymentCheck(body, env)} :
       /\ fetched' = settled
       /\ IF settled.state = "rejected"
          THEN hpc' = "done" /\ res' = Error500(settled.value.error)
          ELSE IF settled.value = Undefined
          THEN hpc' = "done" /\ res' = Response(404, FALSE, "Tour not found")
          ELSE IF check = "TypeError"
          THEN hpc' = "done" /\ res' = Error500("paymentId.startsWith is not a function")
          ELSE IF check # "passed"
          THEN hpc' = "done" /\ res' = Response(400, FALSE, check)
          ELSE hpc' = "awaitCreate" /\ UNCHANGED res
  /\ UNCHANGED <<env, body, bookings, created, outbox, seatPosts,
                 tourVars, listVars, manageVars, verifyVars>>

\* BookingService.create has settled: the row is stored, or the insert
\* has failed (the table is out of reach or a CHECK rejects the row); a
\* confirmed booking goes on to the email, any other is answered
CreateSettles(ok) ==
  /\ hpc = "awaitCreate"
  /\ IF ok /\ ChecksPass(NewRow(body, fetched.value, Len(bookings) + 1))
     THEN LET id == Len(bookings) + 1
          IN  /\ bookings' = Append(bookings, NewRow(body, fetched.value, id))
              /\ created' = id
              /\ IF Get(body, "paymentStatus") = S("confirmed")
                 THEN hpc' = "awaitEmail" /\ UNCHANGED res
                 ELSE hpc' = "done" /\ res' = Created201
     ELSE /\ hpc' = "done"
          /\ res' = Error500("insert failed")
          /\ UNCHANGED <<bookings, created>>
  /\ UNCHANGED <<env, body, fetched, outbox, seatPosts, tourVars, listVars, manageVars,
                 verifyVars>>

\* emailService.sendBookingConfirmation(booking, tour) has settled
EmailSettles(ok) ==
  /\ hpc = "awaitEmail"
  /\ outbox' = Append(outbox, [booking |-> created, ok |-> ok])
  /\ hpc' = IF ok THEN "awaitMark" ELSE AfterEmailError
  /\ UNCHANGED <<env, body, fetched, bookings, created, seatPosts, res,
                 tourVars, listVars, manageVars, verifyVars>>

\* BookingService.update(booking.id, { confirmationEmailSent: true, ... })
\* has settled; its failure is caught with the email's
MarkSettles(ok) ==
  /\ hpc = "awaitMark"
  /\ bookings' = IF ok THEN UpdateRows(bookings, created, [confirmationEmailSent |-> TRUE])
                 ELSE bookings
  /\ hpc' = "awaitSeats"
  /\ UNCHANGED <<env, body, fetched, created, outbox, seatPosts, res,
                 tourVars, listVars, manageVars, verifyVars>>

\* axios.post(.../update-seats) has settled; the response is sent
SeatsSettle(ok) ==
  /\ hpc = "awaitSeats"
  /\ seatPosts' =
       Append(seatPosts,
              [tourId |-> Get(body, "tourId"),
               departureDate |-> SplitT(ToISOString(Get(body, "departureDate"))),
               guests |-> TotalGuests(body),
               ok |-> ok])
  /\ res' = IF ok THEN Created201 ELSE AfterSeatsError
  /\ hpc' = "done"
  /\ UNCHANGED <<env, body, fetched, bookings, created, outbox,
                 tourVars, listVars, manageVars, verifyVars>>

NextBooking ==
  \/ Validate
  \/ \E online \in BOOLEAN : TourSettles(online)
  \/ \E ok \in BOOLEAN : CreateSettles(ok)
  \/ \E ok \in BOOLEAN : EmailSettles(ok)
  \/ \E ok \in BOOLEAN : MarkSettles(ok)
  \/ \E ok \in BOOLEAN : SeatsSettle(ok)

SpecBooking == InitBooking /\ [][NextBooking]_vars

(***************************************************************************)
(* The routes that change a stored booking: PUT /api/bookings/:id,         *)
(* DELETE /api/bookings/:id and PATCH /api/admin/bookings/:id/status.      *)
(* Each handler awaits BookingService.findById and then                    *)
(* BookingService.update; the handlers of concurrent requests interleave   *)
(* at these awaits.                                                        *)
(***************************************************************************)
\* most requests handled at the same time
MaxRequests == 2

\* new Date().toISOString() at time t
ISONow(t) == Str(<<Ch("2025-05-20T10:00:")>> \o NumToSyms(t))

\* the columns of a stored row that POST /api/bookings leaves to their
\* defaults
TableRow(row) ==
  row @@ [confirmedAt |-> Null, cancelledAt |-> Null, adminNotes |-> Null,
          updatedAt |-> ISONow(0)]

\* a booking POST /api/bookings stored as confirmed, its email sent
ConfirmedRow ==
  [EarlierRow EXCEPT !.id = 2,
                     !.paymentId = Str(<<Ch("pay_"), Ch("Nq81")>>),
                     !.paymentStatus = S("confirmed"),
                     !.bookingStatus = S("confirmed"),
                     !.confirmationEmailSent = TRUE]

\* the ids of the requests: a stored booking, and a booking never stored
RequestedIds == {1, 9}

\* req.body of PUT /api/bookings/:id
PutBodies ==
  {Obj([bookingStatus |-> S("confirmed")]),
   Obj([bookingStatus |-> S("cancelled"), adminNotes |-> S("customer called")]),
   Obj([paymentStatus |-> S("confirmed")])}

\* req.body of PATCH /api/admin/bookings/:id/status
PatchBodies ==
  {Obj([bookingStatus |-> S("confirmed")]),
   Obj([bookingStatus |-> S("cancelled")]),
   Obj([bookingStatus |-> S("confirmed"), paymentStatus |-> S("confirmed")])}

NewRequest(route, id, b) ==
  [route |-> route, id |-> id, body |-> b, pc |-> "received",
   updateData |-> <<>>, res |-> NoResponse]

\* the requests: every body on the stored booking; on the id no row has,
\* where the body is never read, one body per route
Requests ==
  LET Read(id, bodies) ==
        {b \in bodies : id = 1 \/ b = Obj([bookingStatus |-> S("confirmed")])}
  IN  UNION {{NewRequest("PUT", id, b) : b \in Read(id, PutBodies)}
               \cup {NewRequest("PATCH", id, b) : b \in Read(id, PatchBodies)}
               \cup {NewRequest("DELETE", id, Obj(<<>>))} : id \in RequestedIds}

\* the member f of updateData when the test holds
Assigned(test, f, x) == IF test THEN f :> x ELSE <<>>

\* updateData of PUT /api/bookings/:id
UpdateDataPut(b, existingBooking, now) ==
  Assigned(Truthy(Get(b, "bookingStatus")), "bookingStatus", Get(b, "bookingStatus"))
    @@ Assigned(Get(b, "bookingStatus") = S("confirmed"), "confirmedAt", now)
    @@ Assigned(Get(b, "bookingStatus") = S("cancelled"), "cancelledAt", now)
    @@ Assigned(Truthy(Get(b, "paymentStatus")), "paymentStatus", Get(b, "paymentStatus"))
    @@ Assigned(Get(b, "adminNotes") # Undefined, "adminNotes", Get(b, "adminNotes"))

\* updateData of PATCH /api/admin/bookings/:id/status: confirmedAt and
\* cancelledAt only when the booking read has none
UpdateDataPatch(b, existingBooking, now) ==
  Assigned(Truthy(Get(b, "bookingStatus")), "bookingStatus", Get(b, "bookingStatus"))
    @@ Assigned(Get(b, "bookingStatus") = S("confirmed")
                  /\ ~Truthy(existingBooking.confirmedAt), "confirmedAt", now)
    @@ Assigned(Get(b, "bookingStatus") = S("cancelled")
                  /\ ~Truthy(existingBooking.cancelledAt), "cancelledAt", now)
    @@ Assigned(Truthy(Get(b, "paymentStatus")), "paymentStatus", Get(b, "paymentStatus"))
    @@ Assigned(Get(b, "adminNotes") # Undefined, "adminNotes", Get(b, "adminNotes"))

\* the cancellation also marks the payment refunded
UpdateDataDeleteRefunding(b, existingBooking, now) ==
  [bookingStatus |-> S("cancelled"), cancelledAt |-> now, paymentStatus |-> S("refunded")]

\* updateData of DELETE /api/bookings/:id
UpdateDataDelete(b, existingBooking, now) ==
  [bookingStatus |-> S("cancelled"), cancelledAt |-> now]

\* the positions of the rows findById(id) selects
Found(rows, id) == {i \in 1..Len(rows) : rows[i].id = id}

\* a confirmation email goes out when the update confirms the booking
OutboxConfirming(box, id, updateData) ==
  IF "bookingStatus" \in DOMAIN updateData /\ updateData.bookingStatus = S("confirmed")
  THEN Append(box, [booking |-> id, ok |-> TRUE])
  ELSE box

\* the three routes answer right after BookingService.update: no email
\* is sent
OutboxAfterUpdate(box, id, updateData) == box

\* BEFORE UPDATE trigger: NEW.updated_at = NOW()
Touched(updateData, now) == [updatedAt |-> now] @@ updateData

\* updateData as the route of the request builds it
UpdateDataOf(route, b, existingBooking, now) ==
  CASE route = "PUT" -> UpdateDataPut(b, existingBooking, now)
    [] route = "PATCH" -> UpdateDataPatch(b, existingBooking, now)
    [] OTHER -> UpdateDataDelete(b, existingBooking, now)

\* res.json({ success: true, ... })
Ok200 == Response(200, TRUE, "none")

\* the table holds a pending booking and a confirmed one, both stored by
\* POST /api/bookings; the email and the seat update of the confirmed one
\* went out
InitManage ==
  /\ reqs \in [1..MaxRequests -> Requests]
  /\ clock = 0
  /\ bookings = <<TableRow(EarlierRow), TableRow(ConfirmedRow)>>
  /\ outbox = <<[booking |-> 2, ok |-> TRUE]>>
  /\ seatPosts = <<[tourId |-> Digits(101), departureDate |-> S("2025-06-01"),
                    guests |-> Num(1), ok |-> TRUE]>>
  /\ env = Undefined
  /\ body = Obj(<<>>)
  /\ hpc = "idle"
  /\ fetched = NoTour
  /\ created = 0
  /\ res = NoResponse
  /\ wpTour = BareRecord
  /\ pc = "idle"
  /\ tour = NoTour
  /\ NoListing
  /\ NoVerification

\* BookingService.findById(id) of request r has settled: 404 when no row
\* has the id, else updateData is built and BookingService.update called
FindSettles(r, ok) ==
  /\ reqs[r].pc = "received"
  /\ clock' = clock + 1
  /\ \E hits \in {Found(bookings, reqs[r].id)} :
       reqs' = [reqs EXCEPT ![r] =
                 IF ~ok THEN [@ EXCEPT !.pc = "done", !.res = Error500("select failed")]
                 ELSE IF hits = {}
                 THEN [@ EXCEPT !.pc = "done",
                                !.res = Response(404, FALSE, "Booking not found")]
                 ELSE [@ EXCEPT !.pc = "found",
                                !.updateData =
                                  UpdateDataOf(reqs[r].route, reqs[r].body,
                                               bookings[CHOOSE i \in hits : TRUE],
                                               ISONow(clock + 1))]]
  /\ UNCHANGED <<env, body, hpc, fetched, bookings, created, outbox, seatPosts, res,
                 tourVars, listVars, verifyVars>>

\* BookingService.update(id, updateData) of request r has settled: the
\* row is changed, or the update has failed; the response is sent
UpdateSettles(r, ok) ==
  /\ reqs[r].pc = "found"
  /\ clock' = clock + 1
  /\ \E updated \in {UpdateRows(bookings, reqs[r].id,
                                 Touched(reqs[r].updateData, ISONow(clock + 1)))} :
       LET stored == /\ ok
                     /\ \A i \in Found(bookings, reqs[r].id) : ChecksPass(updated[i])
       IN  /\ bookings' = IF stored THEN updated ELSE bookings
           /\ outbox' = IF stored
                        THEN OutboxAfterUpdate(outbox, reqs[r].id, reqs[r].updateData)
                        ELSE outbox
           /\ reqs' = [reqs EXCEPT ![r] =
                         [@ EXCEPT !.pc = "done",
                                   !.res = IF stored THEN Ok200
                                           ELSE Error500("update failed")]]
  /\ UNCHANGED <<env, body, hpc, fetched, created, seatPosts, res, tourVars, listVars,
                 verifyVars>>

NextManage ==
  \/ \E r \in 1..Len(reqs), ok \in BOOLEAN : FindSettles(r, ok)
  \/ \E r \in 1..Len(reqs), ok \in BOOLEAN : UpdateSettles(r, ok)

SpecManage == InitManage /\ [][NextManage]_vars

(***************************************************************************)
(* The handler of POST /api/payments/verify.  The gateway answers the      *)
(* order-status call with any status or fails; the HMAC validation of the  *)
(* request body passes, fails or throws.                                   *)
(***************************************************************************)
\* crypto.createHmac('sha256', secret).update(sign).digest('hex')
ExpectedSign(razorpay_order_id, razorpay_payment_id) ==
  Str(<<Ch("hmac:")>> \o Plus(Plus(razorpay_order_id, S("|")), razorpay_payment_id).v)

\* the three razorpay_ fields of the request body: none, a signed pair,
\* a pair with a forged signature, a pair without signature
RazorpayFields ==
  {<<>>,
   [razorpay_order_id |-> S("order_1"), razorpay_payment_id |-> S("pay_1"),
    razorpay_signature |-> ExpectedSign(S("order_1"), S("pay_1"))],
   [razorpay_order_id |-> S("order_1"), razorpay_payment_id |-> S("pay_1"),
    razorpay_signature |-> S("forged")],
   [razorpay_order_id |-> S("order_1"), razorpay_payment_id |-> S("pay_1")]}

\* req.body: order_id, orderId and bank_order_id present or not, and the
\* razorpay_ fields
VerifyBodies ==
  {Obj(Member("order_id", o) @@ Member("orderId", o2) @@ Member("bank_order_id", bo) @@ rz) :
     o \in {Undefined, S("ORD1")}, o2 \in {Undefined, S("ORD1")},
     bo \in {Undefined, S("BANK1")}, rz \in RazorpayFields}

\* what the order-status call settles with: it rejects, or a response
\* whose status is one the handler names, another one, or missing
OrderStatusOutcomes ==
  {[state |-> "rejected"]} \cup
  {[state |-> "fulfilled", value |-> Obj(Member("status", st))] :
     st \in {S("CHARGED"), S("PENDING_VBV"), S("PENDING"), S("AUTHORIZATION_FAILED"),
             S("AUTHENTICATION_FAILED"), S("JUSPAY_DECLINED"), S("NEW"), Undefined}}

\* what res.json sends: the HTTP status and the fields of the JSON
VerifyResponse(code, success, error, paymentMode, status, paymentStatus) ==
  [code |-> code, success |-> success, error |-> error, paymentMode |-> paymentMode,
   status |-> status, paymentStatus |-> paymentStatus]

\* res.status(400).json({ success: false, error: 'Invalid payment signature' })
InvalidSignature400(paymentMode) ==
  VerifyResponse(400, FALSE, "Invalid payment signature", paymentMode, "none", Undefined)

\* const orderIdToCheck = order_id || orderId
OrderIdToCheck(b) == Or(Get(b, "order_id"), Get(b, "orderId"))

\* PAYMENT_MODE === 'HDFC' && orderIdToCheck && hdfcPaymentHandler
HdfcBranch(mode, handler, b) ==
  mode = S("HDFC") /\ Truthy(OrderIdToCheck(b)) /\ Truthy(handler)

\* a switch whose pending cases fall into the case of CHARGED
StatusPendingAsCharged(orderStatus) ==
  IF orderStatus \in {S("CHARGED"), S("PENDING_VBV"), S("PENDING")} THEN "SUCCESS"
  ELSE IF orderStatus \in {S("AUTHORIZATION_FAILED"), S("AUTHENTICATION_FAILED"),
                           S("JUSPAY_DECLINED")} THEN "FAILED"
  ELSE "UNKNOWN"

\* the switch on orderStatus
StatusOf(orderStatus) ==
  IF orderStatus = S("CHARGED") THEN "SUCCESS"
  ELSE IF orderStatus \in {S("PENDING_VBV"), S("PENDING")} THEN "PENDING"
  ELSE IF orderStatus \in {S("AUTHORIZATION_FAILED"), S("AUTHENTICATION_FAILED"),
                           S("JUSPAY_DECLINED")} THEN "FAILED"
  ELSE "UNKNOWN"

\* the answer of the HDFC branch once the order status is known and the
\* HMAC validation has returned
HdfcAnswer(resp, valid) ==
  IF ~valid
  THEN InvalidSignature400("HDFC")
  ELSE LET status == StatusOf(Get(resp, "status"))
       IN  VerifyResponse(200, status = "SUCCESS", "none", "HDFC", status,
                          Get(resp, "status"))

\* catch (error) of the HDFC branch
HdfcError500 ==
  VerifyResponse(500, FALSE, "Failed to verify HDFC payment", "none", "none", Undefined)

\* the Razorpay branch and the bank-transfer branch, which the handler
\* reaches when the HDFC branch is not taken
RazorpayOrBank(mode, client, b) ==
  IF /\ mode = S("RAZORPAY")
     /\ Truthy(Get(b, "razorpay_order_id"))
     /\ Truthy(Get(b, "razorpay_payment_id"))
     /\ Truthy(Get(b, "razorpay_signature"))
  THEN IF ~Truthy(client)
       THEN VerifyResponse(400, FALSE, "Razorpay not configured", "none", "none", Undefined)
       ELSE IF Get(b, "razorpay_signature")
                 = ExpectedSign(Get(b, "razorpay_order_id"), Get(b, "razorpay_payment_id"))
       THEN VerifyResponse(200, TRUE, "none", "RAZORPAY", "none", Undefined)
       ELSE InvalidSignature400("none")
  ELSE IF Truthy(Get(b, "bank_order_id"))
  THEN VerifyResponse(200, TRUE, "none", "BANK_TRANSFER", "PENDING_VERIFICATION", Undefined)
  ELSE InvalidSignature400("none")

\* the module has been loaded under some PAYMENT_MODE: the HDFC handler
\* exists only in HDFC mode and when its initialisation did not throw,
\* the Razorpay client only in RAZORPAY mode with both keys set; a
\* request has arrived
InitVerify ==
  /\ \E setting \in {Undefined, S("HDFC"), S("RAZORPAY"), S("BANK_TRANSFER")} :
       PAYMENT_MODE = Or(setting, S("HDFC"))
  /\ hdfcPaymentHandler \in IF PAYMENT_MODE = S("HDFC") THEN {Null, Obj(<<>>)} ELSE {Null}
  /\ razorpay \in IF PAYMENT_MODE = S("RAZORPAY") THEN {Null, Obj(<<>>)} ELSE {Null}
  /\ verifyBody \in VerifyBodies
  /\ verifyPc = "received"
  /\ orderStatusResp = Undefined
  /\ isValidSignature = Undefined
  /\ verifyRes = NoResponse
  /\ env = Undefined
  /\ body = Obj(<<>>)
  /\ hpc = "idle"
  /\ fetched = NoTour
  /\ bookings = <<>>
  /\ created = 0
  /\ outbox = <<>>
  /\ seatPosts = <<>>
  /\ res = NoResponse
  /\ reqs = <<>>
  /\ clock = 0
  /\ wpTour = BareRecord
  /\ pc = "idle"
  /\ tour = NoTour
  /\ NoListing

\* the handler runs up to the order-status call of the HDFC branch, or,
\* when that branch is not taken, to the response
VerifyReceived ==
  /\ verifyPc = "received"
  /\ IF HdfcBranch(PAYMENT_MODE, hdfcPaymentHandler, verifyBody)
     THEN verifyPc' = "awaitOrderStatus" /\ UNCHANGED verifyRes
     ELSE /\ verifyPc' = "done"
          /\ verifyRes' = RazorpayOrBank(PAYMENT_MODE, razorpay, verifyBody)
  /\ UNCHANGED <<PAYMENT_MODE, hdfcPaymentHandler, razorpay, verifyBody, orderStatusResp,
                 isValidSignature, tourVars, listVars, bookingVars, manageVars>>

\* hdfcPaymentHandler.orderStatus(orderIdToCheck) has settled; the HMAC
\* of the body is validated, validateHMAC_SHA256 returning a boolean or
\* throwing, and the response sent
OrderStatusSettles(outcome, hmac) ==
  /\ verifyPc = "awaitOrderStatus"
  /\ verifyPc' = "done"
  /\ IF outcome.state = "rejected"
     THEN /\ verifyRes' = HdfcError500
          /\ UNCHANGED <<orderStatusResp, isValidSignature>>
     ELSE /\ orderStatusResp' = outcome.value
          /\ IF hmac = "throws"
             THEN verifyRes' = HdfcError500 /\ UNCHANGED isValidSignature
             ELSE /\ isValidSignature' = Bool(hmac = "valid")
                  /\ verifyRes' = HdfcAnswer(outcome.value, hmac = "valid")
  /\ UNCHANGED <<PAYMENT_MODE, hdfcPaymentHandler, razorpay, verifyBody,
                 tourVars, listVars, bookingVars, manageVars>>

NextVerify ==
  \/ VerifyReceived
  \/ \E outcome \in OrderStatusOutcomes, hmac \in {"valid", "invalid", "throws"} :
       OrderStatusSettles(outcome, hmac)

SpecVerify == InitVerify /\ [][NextVerify]_vars

(***************************************************************************)
(* Vocabulary of the properties: the schedule as the editor authored it,   *)
(* read off the fetched record independently of formatTourData.            *)
(***************************************************************************)
Settled == pc = "settled"

Returned == pc = "settled" /\ tour.state = "fulfilled"

Result == tour.value

\* the raw departure_schedule field of the fetched record
RawField ==
  IF "acf" \in DOMAIN wpTour.v /\ "departure_schedule" \in DOMAIN wpTour.v.acf.v
  THEN wpTour.v.acf.v.departure_schedule
  ELSE Undefined

\* the field is a text that is not JSON
Unparseable == RawField.k = "string" /\ RawField.v # <<>> /\ ~JSONParse(RawField).ok

\* the authored value: the field itself, or what its text denotes
Authored ==
  IF RawField.k = "string"
  THEN IF RawField.v = <<>> THEN Undefined
       ELSE LET r == JSONParse(RawField) IN IF r.ok THEN r.val ELSE Undefined
  ELSE RawField

\* the value a has a departures member that is a list
HasList(a) == a.k = "object" /\ "departures" \in DOMAIN a.v /\ a.v.departures.k = "array"

\* the departures of the value a, in source order
DepsOf(a) == IF HasList(a) THEN a.v.departures.v ELSE <<>>

\* the authored departures
Deps == DepsOf(Authored)

\* the field f of the element d, Undefined when d is no record or has no f
FieldOf(d, f) == IF d.k = "object" /\ f \in DOMAIN d.v THEN d.v[f] ELSE Undefined

SoldOut(d) == FieldOf(d, "status") = S("sold_out")

\* positions of the departures of l that are not sold out
OpenIdx(l) == {i \in 1..Len(l) : ~SoldOut(l[i])}

\* the anchor departure of l: the first one in source order that is not
\* sold out; Undefined when all are sold out
Anchor(l) ==
  IF OpenIdx(l) = {} THEN Undefined
  ELSE l[CHOOSE i \in OpenIdx(l) : \A j \in OpenIdx(l) : i <= j]

\* x, or 0 when x is absent or is an empty/zero value
OrZero(x) == IF x \in {Undefined, Null, Num(0), Str(<<>>), Bool(FALSE)} THEN Num(0) ELSE x

(***************************************************************************)
(* Properties.                                                             *)
(***************************************************************************)
\* C1: schedule resolution is total: whatever the raw departure_schedule
\* field holds (also a departures list with null or non-record elements),
\* formatTourData finishes without throwing and returns a result.
C1_Total == Settled => tour.state = "fulfilled"

\* C2: in every result, empty availableDates imply seatsAvailable = 0 and
\* pricePerPerson, pricingTiers and the four supplement fields at their
\* zero/empty defaults, also when every departure is sold out.
C2_EmptyDatesAllDefaults ==
  (Returned /\ Result.availableDates = Arr(<<>>)) =>
    /\ Result.seatsAvailable = Num(0)
    /\ Result.pricePerPerson = Num(0)
    /\ Result.pricingTiers = Arr(<<>>)
    /\ Result.childWithBed = Num(0)
    /\ Result.childWithoutBed = Num(0)
    /\ Result.extraAdultSameRoom = Num(0)
    /\ Result.singleRoomSupplement = Num(0)

\* C3: the four supplement fields are those of the anchor departure (the
\* first departure in source order that is not sold out), and 0 when there
\* is no such departure.
C3_SupplementsFromAnchor ==
  Returned =>
    LET anchor == Anchor(Deps)
    IN  \A f \in {"childWithBed", "childWithoutBed", "extraAdultSameRoom",
                  "singleRoomSupplement"} :
          Result[f] = OrZero(FieldOf(anchor, f))

\* the field is absent, empty or unparseable, or the authored value has no
\* departures, an empty departures list or departures that are not a list
NothingAuthored ==
  \/ RawField = Undefined
  \/ RawField = Str(<<>>)
  \/ Unparseable
  \/ LET a == Authored IN ~HasList(a) \/ DepsOf(a) = <<>>

\* C4: an absent, empty or unparseable field, a value without departures,
\* with an empty departures list or with departures that are not a list,
\* resolve to availableDates = [], seatsAvailable = 0, pricePerPerson = 0
\* and pricingTiers = [].
C4_CanonicalDefault ==
  (Settled /\ NothingAuthored) =>
    /\ tour.state = "fulfilled"
    /\ Result.availableDates = Arr(<<>>)
    /\ Result.seatsAvailable = Num(0)
    /\ Result.pricePerPerson = Num(0)
    /\ Result.pricingTiers = Arr(<<>>)

\* an unparseable text, or a departures member that is not a list, has
\* been resolved
C4_Witness ==
  /\ Returned
  /\ \/ Unparseable /\ Len(RawField.v) > 2
     \/ FieldOf(Authored, "departures") = S("TBD")

\* C5: pricePerPerson is the pricePerPerson of the first departure in source
\* order that is not sold out (0 if it has none, 0 without such a
\* departure), whatever the later departures hold.
C5_PriceFromAnchor ==
  Returned => Result.pricePerPerson = OrZero(FieldOf(Anchor(Deps), "pricePerPerson"))

\* sold_out 100, open 200, open 300 has resolved to 200
C5_Witness ==
  /\ Returned
  /\ Result.pricePerPerson = Num(200)
  /\ Deps = <<DepSoldOut, DepOpenA, DepOpenB>>

RECURSIVE DatesFrom(_, _)
\* the date values of the departures of l from position i on that are not sold out
DatesFrom(l, i) ==
  IF i > Len(l) THEN <<>>
  ELSE (IF SoldOut(l[i]) THEN <<>> ELSE <<FieldOf(l[i], "date")>>) \o DatesFrom(l, i + 1)

\* C6: with a departures list, availableDates is exactly the sequence of the
\* date values of the departures whose status is not "sold_out" (any other
\* or no status is available; a missing date still gives an entry), in
\* source order; its length is the number of such departures.
C6_AvailableDates ==
  Returned =>
    LET l == Deps
    IN  /\ Result.availableDates = Arr(DatesFrom(l, 1))
        /\ Len(Result.availableDates.v) = Cardinality(OpenIdx(l))

\* a list with a sold-out departure, a departure of another status and a
\* departure without date or status has been resolved
C6_Witness ==
  /\ Returned
  /\ Len(Result.availableDates.v) = 2
  /\ LET l == Deps
     IN  /\ \E i \in 1..Len(l) : SoldOut(l[i])
         /\ \E i \in 1..Len(l) : l[i] = DepLimited
         /\ \E i \in 1..Len(l) : l[i] = DepBare

\* some entry of availableDates is x
Listed(x) == \E n \in 1..Len(Result.availableDates.v) : Result.availableDates.v[n] = x

\* C7 as stated: no date of a sold-out departure appears in availableDates,
\* also when a departure that is not sold out carries the same date.
C7_NoSoldOutDate ==
  Returned =>
    LET l == Deps
    IN  \A i \in 1..Len(l) : SoldOut(l[i]) => ~Listed(FieldOf(l[i], "date"))

\* C7 amended: every entry of availableDates is the date of a departure that
\* is not sold out, one entry per such departure; the date of a sold-out
\* departure appears only if a departure that is not sold out carries it.
C7_OnlyOpenDates ==
  Returned =>
    LET l == Deps
        open == OpenIdx(l)
    IN  /\ Len(Result.availableDates.v) = Cardinality(open)
        /\ \A n \in 1..Len(Result.availableDates.v) :
             \E i \in open : Result.availableDates.v[n] = FieldOf(l[i], "date")
        /\ \A i \in 1..Len(l) :
             (SoldOut(l[i]) /\ Listed(FieldOf(l[i], "date"))) =>
               \E j \in open : FieldOf(l[j], "date") = FieldOf(l[i], "date")

\* a sold-out departure whose date no open departure carries has been
\* resolved next to an open one, and its date is not listed
C7_Witness ==
  /\ Returned
  /\ Result.availableDates = Arr(<<S("2025-06-01")>>)
  /\ Deps = <<DepSoldOut, DepOpenB>>

\* the seats a departure contributes: its availableSeats when a number, else 0
SeatsOf(d) ==
  IF FieldOf(d, "availableSeats").k = "number" THEN FieldOf(d, "availableSeats").v ELSE 0

RECURSIVE SeatSum(_, _)
\* the sum of SeatsOf over the departures of l from position i on that are
\* not sold out
SeatSum(l, i) ==
  IF i > Len(l) THEN 0
  ELSE (IF SoldOut(l[i]) THEN 0 ELSE SeatsOf(l[i])) + SeatSum(l, i + 1)

\* C8: seatsAvailable is the numeric sum of availableSeats over the
\* departures that are not sold out; an absent or non-numeric availableSeats
\* (a text, say) counts 0; sold-out departures count nothing.
C8_SeatSum == Returned => Result.seatsAvailable = Num(SeatSum(Deps, 1))

\* the pricingTiers of a departure when a non-empty list, else []
TiersOrEmpty(d) ==
  IF FieldOf(d, "pricingTiers").k = "array" /\ FieldOf(d, "pricingTiers").v # <<>>
  THEN FieldOf(d, "pricingTiers")
  ELSE Arr(<<>>)

\* C9: pricingTiers is the anchor departure's pricingTiers when that list
\* is non-empty and [] otherwise; the tiers of a later departure are never
\* used when the anchor has empty or missing tiers.
C9_TiersFromAnchor == Returned => Result.pricingTiers = TiersOrEmpty(Anchor(Deps))

\* an anchor with empty or missing tiers, followed by a departure
\* with tiers, has resolved to []
C9_Witness ==
  /\ Returned
  /\ Result.pricingTiers = Arr(<<>>)
  /\ Deps \in {<<DepOpenB, DepOpenA>>, <<DepSoldOut, DepBare, DepLimited>>}

\* the integer a metadata value spells: a number, or the digits a text
\* starts with; Undefined when the value is absent or spells none
Spelled(x) ==
  IF x.k = "number" THEN x
  ELSE IF x.k = "string" /\ x.v # <<>> /\ IsDigit(x.v[1])
       THEN Num(DigitsValue(x.v, 1, 0))
  ELSE Undefined

\* the traveler bound for the metadata value x with default d
TravelersOf(x, d) == IF Spelled(x) = Undefined THEN Num(d) ELSE Spelled(x)

\* C10: minTravelers and maxTravelers are always integers: the integer
\* parsed from the metadata value when present and parseable, the defaults
\* 1 and 30 when it is absent or cannot be parsed as an integer.
C10_TravelersIntegers ==
  Returned =>
    LET metadata == FieldOf(Authored, "metadata")
    IN  /\ Result.minTravelers = TravelersOf(FieldOf(metadata, "minTravelers"), 1)
        /\ Result.maxTravelers = TravelersOf(FieldOf(metadata, "maxTravelers"), 30)

\* the fetched record with its departure_schedule field removed
WithoutSchedule(tourRecord) ==
  IF "acf" \in DOMAIN tourRecord.v
  THEN LET acf == tourRecord.v.acf.v
           rest == [f \in DOMAIN acf \ {"departure_schedule"} |-> acf[f]]
       IN  Obj([f \in DOMAIN tourRecord.v |->
                  IF f = "acf" THEN Obj(rest) ELSE tourRecord.v[f]])
  ELSE tourRecord

\* the tour returned for the fetched record without a departure_schedule
ResultWithoutSchedule == formatTourData(WithoutSchedule(wpTour)).value

\* the authored value a is a schedule whose departures list is empty
EmptyList(a) == HasList(a) /\ DepsOf(a) = <<>>

\* the fields that echo what was authored
EchoFields == {"departureSchedule", "customFields"}

\* the fields the schedule's metadata decides before any other source
MetadataFields == {"location", "duration", "minTravelers", "maxTravelers"}

\* the records r and q carry the same value in every field outside skip
SameBut(r, q, skip) == \A f \in DOMAIN r \ skip : r[f] = q[f]

\* C11 (as stated): a schedule with an empty departures list resolves to a
\* tour that differs in no field from the tour resolved when the record
\* has no departure_schedule field at all.
C11_EmptyListAsNoField ==
  (Returned /\ EmptyList(Authored)) => Result = ResultWithoutSchedule

\* C11 (amended): for an empty departures list every field of the tour
\* other than the echoed departureSchedule and customFields, and other
\* than the four fields the metadata decides, equals the field resolved
\* without a departure_schedule; when the schedule carries no metadata the
\* four metadata fields are equal too.
C11_EmptyListSameAvailability ==
  LET a == Authored
  IN  (Returned /\ EmptyList(a)) =>
        /\ SameBut(Result, ResultWithoutSchedule, EchoFields \cup MetadataFields)
        /\ FieldOf(a, "metadata") = Undefined =>
              SameBut(Result, ResultWithoutSchedule, EchoFields)

\* an empty departures list without metadata has resolved, and the echoed
\* schedule is what tells it from a record without the field
C11_Witness ==
  LET a == Authored
  IN  /\ Returned
      /\ EmptyList(a)
      /\ FieldOf(a, "metadata") = Undefined
      /\ Result.departureSchedule # ResultWithoutSchedule.departureSchedule
      /\ Result.availableDates = Arr(<<>>)

\* the fetched record with x as its departure_schedule field
WithSchedule(tourRecord, x) ==
  LET acf == tourRecord.v.acf.v
      with == [f \in DOMAIN acf \cup {"departure_schedule"} |->
                 IF f = "departure_schedule" THEN x ELSE acf[f]]
  IN  Obj([f \in DOMAIN tourRecord.v |->
             IF f = "acf" THEN Obj(with) ELSE tourRecord.v[f]])

\* the field is a JSON text
IsJSONText == RawField.k = "string" /\ RawField.v # <<>> /\ JSONParse(RawField).ok

\* what formatTourData settles with when the field holds the decoded value
\* a in place of its text
SettledDecoded(a) == formatTourData(WithSchedule(wpTour, a))

\* a is a structure: an object or a list
IsStructure(a) == a.k \in {"object", "array"}

\* C12 (as stated): a schedule passed as JSON text and the same schedule
\* passed already decoded yield identical results from formatTourData.
C12_TextAsDecoded == (Settled /\ IsJSONText) => tour = SettledDecoded(Authored)

\* C12 (amended): a JSON text and its decoded value settle alike (both
\* return or both throw), and the returned tours agree in every field
\* other than customFields; for a value that is not an object or a list
\* they may also differ in the echoed departureSchedule.
C12_TextAsDecodedButEcho ==
  LET a == Authored
      decoded == SettledDecoded(a)
  IN  (Settled /\ IsJSONText) =>
        /\ tour.state = decoded.state
        /\ tour.state = "fulfilled" =>
              SameBut(tour.value, decoded.value,
                      IF IsStructure(a) THEN {"customFields"} ELSE EchoFields)

\* a JSON text with a bookable departure has resolved to dates, and the
\* decoded structure resolves to the same dates
C12_Witness ==
  LET a == Authored
  IN  /\ Returned
      /\ IsJSONText
      /\ HasList(a)
      /\ Result.availableDates # Arr(<<>>)
      /\ SettledDecoded(a).value.availableDates = Result.availableDates
      /\ SettledDecoded(a).value.customFields # Result.customFields

\* the value x counts as given: it is there and is not empty
Present(x) == x \notin {Undefined, Null, Str(<<>>)}

RECURSIVE CommaList(_, _)
\* the texts names[i..] written as one text, separated by ", "
CommaList(names, i) ==
  IF i > Len(names) THEN <<>>
  ELSE IF i = Len(names) THEN names[i].v
  ELSE names[i].v \o <<Ch(", ")>> \o CommaList(names, i + 1)

\* the acf member f of the fetched record
AcfField(f) == FieldOf(FieldOf(wpTour, "acf"), f)

\* the metadata member f of the authored schedule
MetadataField(f) == FieldOf(FieldOf(Authored, "metadata"), f)

Alone(tourRecord) == formatTourData(tourRecord)

Done == hpc = "done"

\* the request asks for a confirmed booking
AsksConfirmed == FieldOf(body, "paymentStatus") = S("confirmed")

\* the row the handler has inserted
CreatedRow == bookings[created]

\* nothing has been stored, sent or posted for the request
NothingDone ==
  /\ created = 0
  /\ bookings = <<EarlierRow>>
  /\ outbox = <<>>
  /\ seatPosts = <<>>

\* the travelers of a stored row
Travelers(row) == row.adults.v + row.childrenWithBed.v + row.childrenWithoutBed.v

\* C16: a booking whose departureDate is not in the tour's availableDates,
\* or whose traveler count exceeds the available seats, is not created.
C16_BookingWithinAvailability ==
  created # 0 =>
    LET resolved == fetched.value
    IN  /\ \E i \in 1..Len(resolved.availableDates.v) :
              resolved.availableDates.v[i] = SplitT(CreatedRow.departureDate)
        /\ Travelers(CreatedRow) <= resolved.seatsAvailable.v

\* test mode is active: the request flag and the server setting
TestModeActive ==
  FieldOf(FieldOf(body, "paymentDetails"), "testMode") = Bool(TRUE) /\ env = S("true")

\* paymentId is present and does not start with 'test_'
GoodPaymentId ==
  LET paymentId == FieldOf(body, "paymentId")
  IN  /\ Present(paymentId)
      /\ ~(paymentId.k = "string" /\ paymentId.v[1] = Ch("test_"))

\* paymentDetails is there and has a member
NonEmptyDetails ==
  LET details == FieldOf(body, "paymentDetails")
  IN  details.k = "object" /\ DOMAIN details.v # {}

\* the request may be persisted as confirmed
Qualifies == TestModeActive \/ (GoodPaymentId /\ NonEmptyDetails)

\* C17 (as stated): a request with paymentStatus 'confirmed' that neither
\* is in test mode nor carries a good paymentId with non-empty
\* paymentDetails is answered 400, and no booking is stored, no email is
\* sent and no seat update is made.
C17_UnpaidAnswered400 ==
  (AsksConfirmed /\ ~Qualifies) => NothingDone /\ (Done => res.status = 400)

\* C17 (amended): for such a request no booking is stored, no email is
\* sent and no seat update is made, and the answer is never a success: it
\* is 400 when the validators or the payment validation reject it, 500
\* when the tour could not be fetched before the payment validation or
\* when the paymentId is not a text.
C17_UnpaidNeverStored ==
  (AsksConfirmed /\ ~Qualifies) =>
    /\ NothingDone
    /\ Done =>
         /\ ~res.success
         /\ res.status =
              IF ~Valid(body) THEN 400
              ELSE IF fetched.state = "rejected" THEN 500
              ELSE IF FieldOf(body, "paymentId").k = "number" THEN 500
              ELSE 400

\* a confirmed request with a test payment id and payment details, for a
\* tour that was fetched, has been answered 400
C17_Witness ==
  /\ Done
  /\ AsksConfirmed
  /\ ~TestModeActive
  /\ FieldOf(body, "paymentId") = Str(<<Ch("test_"), Ch("Nq81")>>)
  /\ NonEmptyDetails
  /\ fetched.state = "fulfilled"
  /\ res.status = 400
  /\ NothingDone

\* the content store holds no tour of the request's tourId
UnknownTour ==
  \A t \in StoredTours :
    /\ FieldOf(body, "tourId") # Digits(FieldOf(t, "id").v)
    /\ FieldOf(body, "tourId") # FieldOf(t, "slug")

\* C18: a request for a tourId that does not exist in the content store
\* is answered 404 with error 'Tour not found', and no booking is created.
C18_UnknownTour404 ==
  (Done /\ Valid(body) /\ UnknownTour) =>
    /\ res.status = 404
    /\ res.error = "Tour not found"
    /\ created = 0

\* C19: the confirmation email and the seat update are attempted only
\* for a request with paymentStatus 'confirmed' and only after the booking
\* has been persisted; once the booking is persisted it stays stored and
\* the answer is 201 success, whether or not the email, the follow-up
\* update or the seat update fail.
C19_SideEffectsAfterPersist ==
  /\ (outbox # <<>> \/ seatPosts # <<>>) =>
       /\ AsksConfirmed
       /\ created \in 1..Len(bookings)
       /\ \A j \in 1..Len(outbox) : outbox[j].booking = created
  /\ created # 0 =>
       /\ created \in 1..Len(bookings)
       /\ CreatedRow.id = created
       /\ Done => res = Created201

\* the email was sent, the follow-up update failed, the seat update
\* failed, and the booking is stored and answered 201
C19_Witness ==
  /\ Done
  /\ created # 0
  /\ outbox = <<[booking |-> created, ok |-> TRUE]>>
  /\ ~CreatedRow.confirmationEmailSent
  /\ Len(seatPosts) = 1
  /\ ~seatPosts[1].ok
  /\ res.status = 201

\* C20: a booking's confirmationEmailSent flag is true only after
\* sendBookingConfirmation for that booking completed successfully; if
\* sending fails the flag stays false.
C20_FlagOnlyAfterSend ==
  \A i \in 1..Len(bookings) :
    bookings[i].confirmationEmailSent =>
      \E j \in 1..Len(outbox) : outbox[j].booking = bookings[i].id /\ outbox[j].ok

\* the email of the created booking was sent and its flag is set, while
\* the earlier booking keeps its flag
C20_Witness ==
  /\ created # 0
  /\ CreatedRow.confirmationEmailSent
  /\ ~bookings[1].confirmationEmailSent
  /\ outbox = <<[booking |-> created, ok |-> TRUE]>>

\* C21: every booking stored by POST /api/bookings has bookingStatus
\* 'confirmed' exactly when the request's paymentStatus is 'confirmed',
\* and 'pending' otherwise; a missing paymentStatus is stored as 'pending'.
C21_StatusFollowsPayment ==
  created # 0 =>
    /\ CreatedRow.bookingStatus =
         IF AsksConfirmed THEN S("confirmed") ELSE S("pending")
    /\ FieldOf(body, "paymentStatus") = Undefined =>
         CreatedRow.paymentStatus = S("pending")
    /\ FieldOf(body, "paymentStatus") # Undefined =>
         CreatedRow.paymentStatus = FieldOf(body, "paymentStatus")

\* a confirmed request has been stored as a confirmed booking
C21_Witness ==
  /\ created # 0
  /\ AsksConfirmed
  /\ CreatedRow.bookingStatus = S("confirmed")
  /\ CreatedRow.paymentStatus = S("confirmed")

\* the rows r and q have the same columns and differ at most in the
\* columns of skip
SameRowBut(r, q, skip) ==
  /\ DOMAIN r = DOMAIN q
  /\ \A f \in DOMAIN r \ skip : r[f] = q[f]

\* request r takes a step in this transition
Steps(r) == reqs'[r] # reqs[r]

\* no row is removed or replaced by another in this transition
NoRowRemoved ==
  /\ Len(bookings') = Len(bookings)
  /\ \A i \in 1..Len(bookings) : bookings'[i].id = bookings[i].id

\* what a step of the DELETE request r does to the rows, apart from the
\* columns of touched in the row it cancels: nothing is removed; an unknown
\* id is answered 404; a cancellation that succeeds sets bookingStatus and
\* cancelledAt of the row and changes nothing else; every other step
\* changes no row
DeleteEffect(r, touched) ==
  /\ NoRowRemoved
  /\ (reqs[r].pc = "received" /\ Found(bookings, reqs[r].id) = {}) =>
       /\ bookings' = bookings
       /\ reqs'[r].res.status \in {404, 500}
       /\ reqs'[r].pc = "done"
  /\ IF reqs[r].pc = "found" /\ reqs'[r].res.success
     THEN \A i \in 1..Len(bookings) :
            IF bookings[i].id = reqs[r].id
            THEN /\ bookings'[i].bookingStatus = S("cancelled")
                 /\ Truthy(bookings'[i].cancelledAt)
                 /\ SameRowBut(bookings'[i], bookings[i],
                               {"bookingStatus", "cancelledAt"} \cup touched)
            ELSE bookings'[i] = bookings[i]
     ELSE bookings' = bookings

\* C22 (as stated): DELETE /api/bookings/:id never removes a booking
\* record; for an existing booking it sets bookingStatus to 'cancelled'
\* and cancelledAt and leaves every other field unchanged; for an unknown
\* id it answers 404 and changes nothing.
C22_SoftDelete ==
  [][\A r \in 1..Len(reqs) :
       (reqs[r].route = "DELETE" /\ Steps(r)) => DeleteEffect(r, {})]_vars

\* C22 (amended): as stated, except that the cancellation also refreshes
\* updatedAt of the row (the table's trigger), and that a request whose
\* read or update fails is answered 500 and changes nothing.
C22_SoftDeleteTouchesUpdatedAt ==
  [][\A r \in 1..Len(reqs) :
       (reqs[r].route = "DELETE" /\ Steps(r)) => DeleteEffect(r, {"updatedAt"})]_vars

\* a DELETE request has cancelled the pending booking: the row is still
\* there with its payment status, and the other booking is as it was
C22_Witness ==
  \E r \in 1..Len(reqs) :
    /\ reqs[r].route = "DELETE"
    /\ reqs[r].res = Ok200
    /\ Len(bookings) = 2
    /\ bookings[1].bookingStatus = S("cancelled")
    /\ Truthy(bookings[1].cancelledAt)
    /\ bookings[1].paymentStatus = S("pending")
    /\ bookings[1].updatedAt # ISONow(0)
    /\ bookings[2] = TableRow(ConfirmedRow)

\* every request being handled is a PATCH /api/admin/bookings/:id/status
OnlyPatch == \A r \in 1..Len(reqs) : reqs[r].route = "PATCH"

\* the column f of no row is written again once it holds a time
WrittenOnce(f) ==
  \A i \in 1..Len(bookings) :
    Truthy(bookings[i][f]) => bookings'[i][f] = bookings[i][f]

\* C23: for a booking changed only through PATCH requests, confirmedAt
\* and cancelledAt are written at most once, however the findById and
\* update steps of concurrent requests interleave: once set, no later
\* PATCH overwrites them.
C23_TimestampsWrittenOnce ==
  [][OnlyPatch => (WrittenOnce("confirmedAt") /\ WrittenOnce("cancelledAt"))]_vars

\* request r has been answered 200 after an update giving the booking
\* status
Answered(r, routes, text) ==
  /\ reqs[r].route \in routes
  /\ reqs[r].pc = "done"
  /\ reqs[r].res = Ok200
  /\ "bookingStatus" \in DOMAIN reqs[r].updateData
  /\ reqs[r].updateData.bookingStatus = S(text)

\* C24: the seat-update request and the confirmation email are caused
\* only by POST /api/bookings: no step of a PUT /api/bookings/:id, a
\* DELETE /api/bookings/:id or a PATCH /api/admin/bookings/:id/status
\* request sends an email or posts a seat update, whether it confirms a
\* pending booking or cancels a booking.
C24_NoEmailNoSeatsOnStatusChange ==
  [][outbox' = outbox /\ seatPosts' = seatPosts]_vars

\* the booking stored as pending has been confirmed by a PUT or a PATCH
\* and cancelled by a DELETE, and still the only email and the only seat
\* update are the ones the POST of the other booking caused
C24_Witness ==
  /\ \E r \in 1..Len(reqs) : reqs[r].id = 1 /\ Answered(r, {"PUT", "PATCH"}, "confirmed")
  /\ \E r \in 1..Len(reqs) : reqs[r].id = 1 /\ Answered(r, {"DELETE"}, "cancelled")
  /\ \A e \in 1..Len(outbox) : outbox[e].booking # 1
  /\ Len(seatPosts) = 1

\* the verify request has been answered under PAYMENT_MODE 'HDFC'
AnsweredInHdfcMode == verifyPc = "done" /\ PAYMENT_MODE = S("HDFC")

\* the HMAC validation returned true and the gateway reported CHARGED
CheckedAndCharged ==
  /\ isValidSignature = Bool(TRUE)
  /\ Get(orderStatusResp, "status") = S("CHARGED")

\* the gateway status the answer is about, once the HMAC check passed
ReportedStatus == Get(orderStatusResp, "status")

\* what the claim says of a failed HMAC check and of the statuses other
\* than CHARGED
FailedOrUncharged ==
  /\ isValidSignature = Bool(FALSE)
       => verifyRes.code = 400 /\ ~verifyRes.success
  /\ (isValidSignature = Bool(TRUE) /\ ReportedStatus \in {S("PENDING"), S("PENDING_VBV")})
       => verifyRes.status = "PENDING" /\ ~verifyRes.success
  /\ (isValidSignature = Bool(TRUE)
        /\ ReportedStatus \in {S("AUTHORIZATION_FAILED"), S("AUTHENTICATION_FAILED"),
                               S("JUSPAY_DECLINED")})
       => verifyRes.status = "FAILED" /\ ~verifyRes.success
  /\ (isValidSignature = Bool(TRUE)
        /\ ReportedStatus \notin {S("CHARGED"), S("PENDING"), S("PENDING_VBV"),
                                  S("AUTHORIZATION_FAILED"), S("AUTHENTICATION_FAILED"),
                                  S("JUSPAY_DECLINED")})
       => verifyRes.status = "UNKNOWN" /\ ~verifyRes.success

\* the answer is the acknowledgement of a bank transfer: the body named
\* no order the HDFC handler could look up, and carried bank_order_id
BankTransferAcknowledged ==
  /\ ~(Truthy(OrderIdToCheck(verifyBody)) /\ Truthy(hdfcPaymentHandler))
  /\ Truthy(Get(verifyBody, "bank_order_id"))
  /\ isValidSignature = Undefined
  /\ orderStatusResp = Undefined
  /\ verifyRes.paymentMode = "BANK_TRANSFER"
  /\ verifyRes.status = "PENDING_VERIFICATION"

\* C25: in HDFC mode POST /api/payments/verify answers success:true only
\* if the HMAC check of the body passed and the gateway reports CHARGED;
\* a failed HMAC check gives 400 whatever the gateway status, PENDING and
\* PENDING_VBV give PENDING, the three failure statuses give FAILED, any
\* other status gives UNKNOWN, all with success:false.
C25_HdfcVerify ==
  AnsweredInHdfcMode =>
    /\ verifyRes.success => CheckedAndCharged
    /\ FailedOrUncharged

\* C25 as the handler has it: in HDFC mode success:true is answered only
\* if the HMAC check passed and the gateway reports CHARGED, or if the
\* HDFC branch was not taken (no order_id or orderId in the body, or no
\* handler) and the body carries bank_order_id, which is acknowledged as
\* a bank transfer pending verification; the rest as stated.
C25_HdfcVerifyOrBankTransfer ==
  AnsweredInHdfcMode =>
    /\ verifyRes.success => CheckedAndCharged \/ BankTransferAcknowledged
    /\ FailedOrUncharged

\* a verify request was answered success:true in HDFC mode after the
\* HMAC check passed on an order the gateway reports as CHARGED
C25_Witness ==
  /\ AnsweredInHdfcMode
  /\ verifyRes.success
  /\ CheckedAndCharged
  /\ verifyRes.paymentMode = "HDFC"

====
